---- MODULE Spec2Model ----
(***************************************************************************)
(* Model of the event store of bxyz-invite (src/src/event_db.rs): the      *)
(* backing file, the gate DB_GUARD, the identifier generator RNG, the      *)
(* public operations and the purge task.  Every operation is split at its  *)
(* suspension points (.await): lock, read, write, lock of RNG.             *)
(***************************************************************************)
EXTENDS Integers, Sequences, FiniteSets, TLC

\* ------------------------------------------------------------------ bounds
\* Random identifiers are drawn from 0..MaxId.
MaxId == 1
\* Operations (public calls and sweeps) started in one behaviour.
MaxOps == 2
\* The system clock moves in steps of ClockStep days, up to MaxNow days.
ClockStep == 90
MaxNow == 90

\* --------------------------------------------------------- program constants
\* Duration::from_days(30 * 3), in days.
EVENT_LIFETIME == 90
\* Duration::from_days(1) and Duration::from_mins(1), in seconds.
PURGE_PERIOD == 86400
PURGE_RETRY_PERIOD == 60
\* The width of an identifier, u64, scaled to 24 bits; base62::decode yields the
\* wider u128, scaled to 30 bits.
U64 == 16777216
U128 == 1073741824
\* The radix of the base62 text encoding; a character outside the alphabet is
\* written as the code BadChar.
Base == 62
BadChar == 62

\* The foreground tasks (request handlers) and the purge task.
Tasks == {"t1", "t2"}
Purger == "purge"
Procs == Tasks \cup {Purger}

IDs == 0..MaxId

\* ------------------------------------------------------------- entity model
\* Event.name is an Option<String>: <<>> is None, <<s>> is Some(s).
MkAttendee(i, n, h, a) ==
    [id |-> i, name |-> n, custom_html |-> h, has_accepted |-> a]

MkEvent(i, n, ats, c) ==
    [id |-> i, name |-> n, attendees |-> ats, created |-> c]

\* EventDB::default()
EmptyDB == <<>>

\* ------------------------------------------------------- persistence codec
\* The content of events.db: absent, bytes that are no store, or the CBOR
\* encoding of a store.
Missing == [kind |-> "missing", events |-> <<>>]
Garbage == [kind |-> "garbage", events |-> <<>>]

\* serde_cbor::to_vec(&db)
Encode(db) == [kind |-> "cbor", events |-> db]

\* serde_cbor::from_slice::<EventDB>(&data)
Decodable(f) == f.kind = "cbor"

Decode(f) == f.events

\* tokio::fs::read(DB_PATH): fails when the file is absent or on an I/O fault.
ReadFails(f, fault) == fault \/ f.kind = "missing"

\* A write that is left out.
WriteFile_Skipped(f, d, out) == f

\* tokio::fs::write(DB_PATH, &d): "ok" replaces the content; a failed write
\* either leaves the file as it was or leaves it truncated.
WriteOutcomes == {"ok", "fail_keep", "fail_trunc"}

WriteFile(f, d, out) ==
    CASE out = "ok" -> d
      [] out = "fail_trunc" -> Garbage
      [] OTHER -> f

\* open_db goes on whether its write failed or not.
WriteOk_Always(out) == TRUE

\* if tokio::fs::write(..).await.is_err() { return Err(()) }
WriteOk(out) == out = "ok"

\* --------------------------------------------------- identifier encoding
\* base62::decode on a key given as its character codes: an empty key, a
\* character outside the alphabet and a value beyond u128 are errors.
RECURSIVE DecodeValue(_)
DecodeValue(key) ==
    IF key = <<>> THEN 0
    ELSE LET hi == DecodeValue(SubSeq(key, 1, Len(key) - 1))
             d == key[Len(key)]
         IN  IF hi < 0 \/ hi > (U128 - 1 - d) \div Base THEN -1
             ELSE hi * Base + d

DecodeOk(key) ==
    /\ key # <<>>
    /\ \A i \in 1..Len(key) : key[i] # BadChar
    /\ DecodeValue(key) >= 0

\* at_id as u64
AsU64(v) == v % U64

\* base62::encode
RECURSIVE Encode62(_)
Encode62(v) ==
    IF v < Base THEN <<v>> ELSE Append(Encode62(v \div Base), v % Base)

\* ------------------------------------------------------- results of calls
\* What a call returned: kind is "none" before the first return, then "Ok",
\* "NotFound", "Database" or "Panic" (setup_test unwraps); id is create_event's
\* Ok(ev_id); ev and at hold the clones a find returns.
MkRes(k, i, e, a) == [id |-> i, kind |-> k, ev |-> e, at |-> a]

NoRes == MkRes("none", 0, <<>>, <<>>)
OkRes == MkRes("Ok", 0, <<>>, <<>>)
NotFoundRes == MkRes("NotFound", 0, <<>>, <<>>)
DatabaseRes == MkRes("Database", 0, <<>>, <<>>)
PanicRes == MkRes("Panic", 0, <<>>, <<>>)

\* ---------------------------------------------------- the bodies of the calls
\* The comparison with the lifetime made inclusive.
Retained_Inclusive(ev, now) ==
    IF now < ev.created THEN FALSE ELSE now - ev.created <= EVENT_LIFETIME

\* purge_old_events: db.events.retain(..): duration_since fails for an event
\* created after now, and such an event is dropped.
Retained(ev, now) ==
    IF now < ev.created THEN FALSE ELSE now - ev.created < EVENT_LIFETIME

PurgeOld(db, now) == SelectSeq(db, LAMBDA ev : Retained(ev, now))

\* create_event: db.events.push(new_event)
CreateEvent(db, ev_id, now) == Append(db, MkEvent(ev_id, <<>>, <<>>, now))

\* find_event_by_id: the first event of the store with the id.
RECURSIVE FindByIdFrom(_, _, _)
FindByIdFrom(db, ev_id, i) ==
    IF i > Len(db) THEN NotFoundRes
    ELSE IF db[i].id = ev_id THEN MkRes("Ok", 0, <<db[i]>>, <<>>)
    ELSE FindByIdFrom(db, ev_id, i + 1)

FindEventById(db, ev_id) == FindByIdFrom(db, ev_id, 1)

\* A scan that keeps the last match instead of returning the first.
RECURSIVE FindLastByAttendeeFrom(_, _, _, _, _)
FindLastByAttendeeFrom(db, at_id, i, j, acc) ==
    IF i > Len(db) THEN acc
    ELSE IF j > Len(db[i].attendees) THEN FindLastByAttendeeFrom(db, at_id, i + 1, 1, acc)
    ELSE FindLastByAttendeeFrom(db, at_id, i, j + 1,
            IF db[i].attendees[j].id = at_id
            THEN MkRes("Ok", 0, <<db[i]>>, <<db[i].attendees[j]>>)
            ELSE acc)

FindEventByAttendee_Last(db, at_id) ==
    FindLastByAttendeeFrom(db, at_id, 1, 1, NotFoundRes)

\* find_event_by_attendee: events in order, and each event's attendees in order.
RECURSIVE FindByAttendeeFrom(_, _, _, _)
FindByAttendeeFrom(db, at_id, i, j) ==
    IF i > Len(db) THEN NotFoundRes
    ELSE IF j > Len(db[i].attendees) THEN FindByAttendeeFrom(db, at_id, i + 1, 1)
    ELSE IF db[i].attendees[j].id = at_id
         THEN MkRes("Ok", 0, <<db[i]>>, <<db[i].attendees[j]>>)
    ELSE FindByAttendeeFrom(db, at_id, i, j + 1)

FindEventByAttendee(db, at_id) == FindByAttendeeFrom(db, at_id, 1, 1)

\* The comparison of set_accepted inverted.
SetAccepted_Others(db, at_id, accept) ==
    [i \in 1..Len(db) |->
        [db[i] EXCEPT !.attendees =
            [j \in 1..Len(@) |->
                IF @[j].id # at_id THEN [@[j] EXCEPT !.has_accepted = accept]
                ELSE @[j]]]]

\* The flag is left as it is.
SetAccepted_Noop(db, at_id, accept) == db

\* The flag is set, never cleared.
SetAccepted_AlwaysTrue(db, at_id, accept) ==
    [i \in 1..Len(db) |->
        [db[i] EXCEPT !.attendees =
            [j \in 1..Len(@) |->
                IF @[j].id = at_id THEN [@[j] EXCEPT !.has_accepted = TRUE]
                ELSE @[j]]]]

\* set_accepted: every attendee with the id, in every event.
SetAccepted(db, at_id, accept) ==
    [i \in 1..Len(db) |->
        [db[i] EXCEPT !.attendees =
            [j \in 1..Len(@) |->
                IF @[j].id = at_id THEN [@[j] EXCEPT !.has_accepted = accept]
                ELSE @[j]]]]

\* update_event, the inner loop: the entries of attendee_data in the map's
\* iteration order; a key that does not decode is skipped, a later match
\* overwrites an earlier one.
RECURSIVE ApplyEntries(_, _, _, _)
ApplyEntries(at, entries, order, k) ==
    IF k > Len(order) THEN at
    ELSE LET key == order[k]
             hit == DecodeOk(key) /\ AsU64(DecodeValue(key)) = at.id
             nxt == IF hit
                    THEN [at EXCEPT !.custom_html = entries[key].custom_html,
                                    !.name = entries[key].name]
                    ELSE at
         IN  ApplyEntries(nxt, entries, order, k + 1)

\* update_event: data is a ManagePageJson, order the iteration order of its
\* HashMap.
UpdateEvent(db, ev_id, data, order) ==
    [i \in 1..Len(db) |->
        IF ev_id = db[i].id
        THEN [db[i] EXCEPT
                !.name = <<data.event_name>>,
                !.attendees = [j \in 1..Len(@) |->
                                  ApplyEntries(@[j], data.attendee_data, order, 1)]]
        ELSE db[i]]

\* add_attendee: one draw of RNG per matching event; draws[k] is the k-th.
NewAttendee(at_id) == MkAttendee(at_id, "Unnamed", "<html></html>", FALSE)

DrawAt(draws, k) == IF k <= Len(draws) THEN draws[k] ELSE 0

RECURSIVE AddAttendeeFrom(_, _, _, _, _)
AddAttendeeFrom(db, ev_id, draws, i, k) ==
    IF i > Len(db) THEN <<>>
    ELSE IF ev_id = db[i].id
         THEN <<[db[i] EXCEPT !.attendees = Append(@, NewAttendee(DrawAt(draws, k)))]>>
              \o AddAttendeeFrom(db, ev_id, draws, i + 1, k + 1)
    ELSE <<db[i]>> \o AddAttendeeFrom(db, ev_id, draws, i + 1, k)

AddAttendee(db, ev_id, draws) == AddAttendeeFrom(db, ev_id, draws, 1, 1)

\* The number of draws add_attendee makes.
NumMatching(db, ev_id) == Cardinality({i \in 1..Len(db) : db[i].id = ev_id})

\* retain applied to the events instead of to each event's attendees.
RemoveAttendee_DropsEvents(db, at_id) ==
    SelectSeq(db, LAMBDA ev : \A j \in 1..Len(ev.attendees) : ev.attendees[j].id # at_id)

\* The test of retain inverted: the attendees with the id are the ones kept.
RemoveAttendee_Inverted(db, at_id) ==
    [i \in 1..Len(db) |->
        [db[i] EXCEPT !.attendees = SelectSeq(@, LAMBDA at : at.id = at_id)]]

\* remove_attendee: event.attendees.retain(|at| at.id != at_id) in every event.
RemoveAttendee(db, at_id) ==
    [i \in 1..Len(db) |->
        [db[i] EXCEPT !.attendees = SelectSeq(@, LAMBDA at : at.id # at_id)]]

\* setup_test: base62::decode("test") as u64, and the four attendees.
TestEventId == AsU64(DecodeValue(<<55, 40, 54, 55>>))

TestAttendeeId == 1234567

TestEvent(now) ==
    MkEvent(TestEventId, <<"My Event">>,
            [j \in 1..4 |-> MkAttendee(TestAttendeeId + j - 1, "Blacepos", "hi i hope", FALSE)],
            now)

SetupTest(db, now) ==
    IF \E i \in 1..Len(db) : db[i].id = TestEventId THEN db
    ELSE Append(db, TestEvent(now))

\* ------------------------------------------------------------ the requests
\* ManagePageJson: event_name and the HashMap attendee_data, its keys the
\* character codes of the encoded attendee ids.
NoData == [event_name |-> "", attendee_data |-> <<>>]

MkReq(o, i, a, d) == [id |-> i, accept |-> a, data |-> d, op |-> o]

Entry(n, h) == [name |-> n, custom_html |-> h]

\* Keys of an update payload: the encoded id 1, a key with a character outside
\* the alphabet, and "01", which decodes to 1 as well.
KeyOne == Encode62(1)
KeyBad == <<BadChar>>
KeyLeadingZero == <<0, 1>>

Payloads ==
    { [event_name |-> "Party",
       attendee_data |-> (KeyOne :> Entry("Alice", "<p>Hi</p>"))
                         @@ (KeyBad :> Entry("Bob", "<p>Yo</p>"))],
      [event_name |-> "Party",
       attendee_data |-> (KeyOne :> Entry("Alice", "<p>Hi</p>"))
                         @@ (KeyLeadingZero :> Entry("Bob", "<p>Yo</p>"))] }

\* The identifiers a caller passes.
EventArgs == IDs
AttendeeArgs == IDs

\* find_event_by_attendee goes through save_db like the mutations.
FindOps_OnlyById == {"find_event_by_id"}

FindOps == {"find_event_by_id", "find_event_by_attendee"}
MutationOps == {"set_accepted", "update_event", "add_attendee", "remove_attendee"}
CrudOps == FindOps \cup MutationOps \cup {"create_event"}

Requests ==
    {MkReq("create_event", 0, FALSE, NoData), MkReq("setup_test", 0, FALSE, NoData)}
    \cup {MkReq(o, i, FALSE, NoData) : o \in {"find_event_by_id", "add_attendee"}, i \in EventArgs}
    \cup {MkReq(o, i, FALSE, NoData) :
             o \in {"find_event_by_attendee", "remove_attendee"}, i \in AttendeeArgs}
    \cup {MkReq("set_accepted", i, a, NoData) : i \in AttendeeArgs, a \in BOOLEAN}
    \cup {MkReq("update_event", i, FALSE, d) : i \in EventArgs, d \in Payloads}

PurgeReq == MkReq("purge", 0, FALSE, NoData)

\* A key whose decoded value does not fit an identifier: at_id as u64 is 1.
KeyWide == Encode62(U64 + 1)

\* The payloads of update_event: those above, and one whose only key is wide.
UpdatePayloads ==
    Payloads \cup
    { [event_name |-> "Party",
       attendee_data |-> (KeyWide :> Entry("Mallory", "<p>Yo</p>"))] }

UpdateRequests ==
    {MkReq("update_event", i, FALSE, d) : i \in EventArgs, d \in UpdatePayloads}

\* The iteration orders of a HashMap with the keys S.
Orders(S) ==
    {o \in [1..Cardinality(S) -> S] : \A i, j \in 1..Cardinality(S) : i # j => o[i] # o[j]}

\* What a call met and chose on its way: how open_db went (load), whether the
\* read failed, the outcome of open_db's write (w1) and of save_db's (w2), the
\* identifiers drawn from RNG, the iteration order of the payload's map, and
\* SystemTime::now().
MkHist(l, rf, a, b, dr, o, n) ==
    [now |-> n, order |-> o, draws |-> dr, load |-> l, rdfail |-> rf, w1 |-> a, w2 |-> b]

NoHist == MkHist("none", FALSE, "none", "none", <<>>, <<>>, 0)

\* The store a call saves, from the store it loaded.
Mutated(r, d, h) ==
    CASE r.op = "create_event" -> CreateEvent(d, DrawAt(h.draws, 1), h.now)
      [] r.op = "set_accepted" -> SetAccepted(d, r.id, r.accept)
      [] r.op = "update_event" -> UpdateEvent(d, r.id, r.data, h.order)
      [] r.op = "add_attendee" -> AddAttendee(d, r.id, h.draws)
      [] r.op = "remove_attendee" -> RemoveAttendee(d, r.id)
      [] r.op = "setup_test" -> SetupTest(d, h.now)
      [] r.op = "purge" -> PurgeOld(d, h.now)
      [] OTHER -> d

\* One whole call run alone on the file f: open_db, the body, save_db, with the
\* outcomes h of its reads, writes and draws.
SerialRun(f, r, h) ==
    LET reset == ReadFails(f, h.rdfail) \/ ~Decodable(f)
        f1 == IF reset THEN WriteFile(f, Encode(EmptyDB), h.w1) ELSE f
        d == IF reset THEN EmptyDB ELSE Decode(f)
    IN  IF reset /\ h.w1 \in {"fail_keep", "fail_trunc"} THEN f1
        ELSE IF r.op \in FindOps THEN f1
        ELSE WriteFile(f1, Encode(Mutated(r, d, h)), h.w2)

\* ------------------------------------------------------------------ state
VARIABLES
    file,    \* the content of events.db
    guard,   \* the tasks holding a MutexGuard of DB_GUARD
    rng,     \* the tasks holding a MutexGuard of RNG
    now,     \* SystemTime::now(), in days
    ops,     \* calls and sweeps started so far
    pc,      \* where each task is
    req,     \* the call each task is in (or was last in)
    db,      \* the EventDB each task owns between open_db and save_db
    res,     \* what each task's last call returned
    hist,    \* what each task's call met and chose
    serial,  \* the file as it would be had the finished calls run one at a time
    tally    \* the events of the initial file, the create_event calls that
             \* returned an id, and whether a read of an existing file failed

vars == <<file, guard, rng, now, ops, pc, req, db, res, hist, serial, tally>>

\* Stores a previous run left.  Identifiers are random and never checked, so
\* an attendee id may occur twice, and so may an event id.
SeedDB ==
    <<MkEvent(0, <<>>, <<NewAttendee(1), MkAttendee(1, "Alice", "<p>Hi</p>", TRUE)>>, 0)>>

SeedTwoDB ==
    <<MkEvent(0, <<>>, <<NewAttendee(0)>>, 0),
      MkEvent(0, <<"Party">>, <<MkAttendee(1, "Alice", "<p>Hi</p>", TRUE), NewAttendee(0)>>, 0)>>

InitFiles == {Missing, Garbage, Encode(EmptyDB), Encode(SeedDB), Encode(SeedTwoDB)}

\* A store whose events were created on day 0, day 1 and day 91: at a sweep on
\* day 90 they are 90 days old, 89 days old, and created after now.
PurgeSeedDB ==
    <<MkEvent(0, <<"A">>, <<>>, 0), MkEvent(1, <<"B">>, <<NewAttendee(0)>>, 1),
      MkEvent(0, <<"C">>, <<>>, 91), MkEvent(1, <<"D">>, <<>>, 1)>>

PurgeFiles == {Missing, Garbage, Encode(PurgeSeedDB)}

\* The state when the process starts with one of the files F in place.
InitFrom(F) ==
    /\ file \in F
    /\ serial = file
    /\ tally = [created |-> 0, base |-> Len(file.events), rdlost |-> FALSE]
    /\ guard = {}
    /\ rng = {}
    /\ now = 0
    /\ ops = 0
    /\ pc = [p \in Procs |-> IF p = Purger THEN "sleep" ELSE "idle"]
    /\ req = [p \in Procs |-> IF p = Purger THEN PurgeReq ELSE MkReq("none", 0, FALSE, NoData)]
    /\ db = [p \in Procs |-> EmptyDB]
    /\ res = [p \in Procs |-> NoRes]
    /\ hist = [p \in Procs |-> NoHist]

Init == InitFrom(InitFiles)

\* ------------------------------------------------------------ the two gates
\* A lock that never waits.
LockFree_Always(g) == TRUE

\* DB_GUARD.lock().await resolves when no guard is out.
LockFree(g) == g = {}

\* A guard that is kept (leaked) where it should be dropped.
DropGuard_Leak(g, p) == g

\* The MutexGuard is dropped: by save_db at its end, by a find at its return,
\* by open_db when it returns Err.
DropGuard(g, p) == g \ {p}

\* The purge task gives up after a sweep that failed.
AfterReturn_GivesUp(p, ok) == IF p = Purger /\ ok THEN "sleep" ELSE "idle"

\* A call that failed is tried again like a sweep, whoever made it.
AfterReturn_RetryAll(p, ok) ==
    IF ~ok THEN "retry" ELSE IF p = Purger THEN "sleep" ELSE "idle"

\* A failed sweep is followed by the sleep of the whole period.
AfterReturn_NoRetry(p, ok) == IF p # Purger THEN "idle" ELSE "sleep"

\* Where a task is after its call returned: purge_task sleeps PURGE_PERIOD after
\* a sweep that succeeded and PURGE_RETRY_PERIOD after one that failed.
AfterReturn(p, ok) ==
    IF p # Purger THEN "idle" ELSE IF ok THEN "sleep" ELSE "retry"

\* The duration of the tokio::time::sleep the purge task is in, 0 when it is
\* in none.
SleepFor(at) ==
    CASE at = "sleep" -> PURGE_PERIOD
      [] at = "retry" -> PURGE_RETRY_PERIOD
      [] OTHER -> 0

\* An error of open_db or save_db that is dropped.
ErrRes_Swallowed(r) == OkRes

\* open_db or save_db failed: map_err(..)? in the public calls, unwrap() in
\* setup_test.
ErrRes(r) == IF r.op = "setup_test" THEN PanicRes ELSE DatabaseRes

\* create_event returns a default identifier instead of the one it drew.
SavedRes_Default(r, h) == OkRes

\* What the call returns after save_db succeeded.
SavedRes(r, h) ==
    IF r.op = "create_event" THEN MkRes("Ok", DrawAt(h.draws, 1), <<>>, <<>>) ELSE OkRes

\* The number of times the body locks RNG.
DrawsNeeded(r, d) ==
    CASE r.op = "create_event" -> 1
      [] r.op = "add_attendee" -> NumMatching(d, r.id)
      [] OTHER -> 0

\* The call of task p returns x; its guard is dropped.
Return(p, x, h) ==
    /\ pc' = [pc EXCEPT ![p] = AfterReturn(p, x.kind \in {"Ok", "NotFound"})]
    /\ res' = [res EXCEPT ![p] = x]
    /\ guard' = DropGuard(guard, p)
    /\ db' = [db EXCEPT ![p] = EmptyDB]
    /\ hist' = [hist EXCEPT ![p] = [h EXCEPT !.draws = <<>>, !.order = <<>>, !.now = 0]]
    /\ serial' = SerialRun(serial, req[p], h)
    /\ tally' = [tally EXCEPT !.created =
                    IF req[p].op = "create_event" /\ x.kind = "Ok" THEN @ + 1 ELSE @]

\* ---------------------------------------------------------------- actions
\* A request handler calls one of the public functions.
Start(t, r) ==
    /\ pc[t] = "idle"
    /\ ops < MaxOps
    /\ pc' = [pc EXCEPT ![t] = "lock"]
    /\ req' = [req EXCEPT ![t] = r]
    /\ res' = [res EXCEPT ![t] = NoRes]
    /\ hist' = [hist EXCEPT ![t] = NoHist]
    /\ ops' = ops + 1
    /\ UNCHANGED <<file, guard, rng, now, db, serial, tally>>

\* purge_task: sleep(PURGE_PERIOD) is over, the sweep starts.
WakePeriod ==
    /\ pc[Purger] = "sleep"
    /\ ops < MaxOps
    /\ pc' = [pc EXCEPT ![Purger] = "lock"]
    /\ res' = [res EXCEPT ![Purger] = NoRes]
    /\ hist' = [hist EXCEPT ![Purger] = NoHist]
    /\ ops' = ops + 1
    /\ UNCHANGED <<file, guard, rng, now, req, db, serial, tally>>

\* purge_task: sleep(PURGE_RETRY_PERIOD) is over, the sweep is tried again.
WakeRetry ==
    /\ pc[Purger] = "retry"
    /\ ops < MaxOps
    /\ pc' = [pc EXCEPT ![Purger] = "lock"]
    /\ res' = [res EXCEPT ![Purger] = NoRes]
    /\ hist' = [hist EXCEPT ![Purger] = NoHist]
    /\ ops' = ops + 1
    /\ UNCHANGED <<file, guard, rng, now, req, db, serial, tally>>

\* open_db: let lock = DB_GUARD.lock().await
Lock(p) ==
    /\ pc[p] = "lock"
    /\ LockFree(guard)
    /\ guard' = guard \cup {p}
    /\ pc' = [pc EXCEPT ![p] = "read"]
    /\ UNCHANGED <<file, rng, now, ops, req, db, res, hist, serial, tally>>

\* open_db: tokio::fs::read(DB_PATH).await and serde_cbor::from_slice
Read(p) ==
    /\ pc[p] = "read"
    /\ \E fault \in BOOLEAN :
        /\ IF ReadFails(file, fault)
           THEN /\ pc' = [pc EXCEPT ![p] = "reset"]
                /\ hist' = [hist EXCEPT ![p].load = "read_err", ![p].rdfail = TRUE]
                /\ db' = db
           ELSE IF ~Decodable(file)
           THEN /\ pc' = [pc EXCEPT ![p] = "reset"]
                /\ hist' = [hist EXCEPT ![p].load = "corrupt"]
                /\ db' = db
           ELSE /\ pc' = [pc EXCEPT ![p] = "loaded"]
                /\ hist' = [hist EXCEPT ![p].load = "ok"]
                /\ db' = [db EXCEPT ![p] = Decode(file)]
        /\ tally' = [tally EXCEPT !.rdlost = @ \/ (fault /\ file.kind # "missing")]
    /\ UNCHANGED <<file, guard, rng, now, ops, req, res, serial>>

\* open_db: tokio::fs::write(DB_PATH, &def).await of the default structure;
\* return Err(()) when it fails, Ok((def_struct, lock)) otherwise.
Reset(p) ==
    /\ pc[p] = "reset"
    /\ \E out \in WriteOutcomes :
        /\ file' = WriteFile(file, Encode(EmptyDB), out)
        /\ IF WriteOk(out)
           THEN /\ pc' = [pc EXCEPT ![p] = "loaded"]
                /\ db' = [db EXCEPT ![p] = EmptyDB]
                /\ hist' = [hist EXCEPT ![p].w1 = out]
                /\ UNCHANGED <<guard, res, serial, tally>>
           ELSE Return(p, ErrRes(req[p]), [hist[p] EXCEPT !.w1 = out])
    /\ UNCHANGED <<rng, now, ops, req>>

\* find_event_by_id, find_event_by_attendee: the scan and the return; _lock is
\* dropped.
FindReturn(p) ==
    /\ pc[p] = "loaded"
    /\ req[p].op \in FindOps
    /\ Return(p, IF req[p].op = "find_event_by_id"
                 THEN FindEventById(db[p], req[p].id)
                 ELSE FindEventByAttendee(db[p], req[p].id), hist[p])
    /\ UNCHANGED <<file, rng, now, ops, req>>

\* create_event, add_attendee: RNG.lock().await
RngLock(p) ==
    /\ pc[p] = "loaded"
    /\ Len(hist[p].draws) < DrawsNeeded(req[p], db[p])
    /\ LockFree(rng)
    /\ rng' = rng \cup {p}
    /\ pc' = [pc EXCEPT ![p] = "draw"]
    /\ UNCHANGED <<file, guard, now, ops, req, db, res, hist, serial, tally>>

\* create_event, add_attendee: .random(), and the guard of RNG is dropped at the
\* end of the statement; after the last draw the body is done.
Draw(p) ==
    /\ pc[p] = "draw"
    /\ \E id \in IDs :
        LET h == [hist[p] EXCEPT !.draws = Append(@, id), !.now = now]
        IN  /\ hist' = [hist EXCEPT ![p] = h]
            /\ IF Len(h.draws) = DrawsNeeded(req[p], db[p])
               THEN /\ db' = [db EXCEPT ![p] = Mutated(req[p], @, h)]
                    /\ pc' = [pc EXCEPT ![p] = "save"]
               ELSE /\ db' = db
                    /\ pc' = [pc EXCEPT ![p] = "loaded"]
    /\ rng' = DropGuard(rng, p)
    /\ UNCHANGED <<file, guard, now, ops, req, res, serial, tally>>

\* The body of a call that draws no identifier: set_accepted, update_event,
\* remove_attendee, setup_test, purge_old_events, and add_attendee when no
\* event matches.
Body(p) ==
    /\ pc[p] = "loaded"
    /\ req[p].op \notin FindOps
    /\ DrawsNeeded(req[p], db[p]) = 0
    /\ \E o \in Orders(DOMAIN req[p].data.attendee_data) :
        LET h == [hist[p] EXCEPT !.order = o, !.now = now]
        IN  /\ hist' = [hist EXCEPT ![p] = h]
            /\ db' = [db EXCEPT ![p] = Mutated(req[p], @, h)]
    /\ pc' = [pc EXCEPT ![p] = "save"]
    /\ UNCHANGED <<file, guard, rng, now, ops, req, res, serial, tally>>

\* save_db: tokio::fs::write(DB_PATH, &d).await; _lock is dropped when save_db
\* returns.
Save(p) ==
    /\ pc[p] = "save"
    /\ \E out \in WriteOutcomes :
        LET h == [hist[p] EXCEPT !.w2 = out]
        IN  /\ file' = WriteFile(file, Encode(db[p]), out)
            /\ Return(p, IF WriteOk(out) THEN SavedRes(req[p], h) ELSE ErrRes(req[p]), h)
    /\ UNCHANGED <<rng, now, ops, req>>

\* The system clock advances.
Tick ==
    /\ now + ClockStep <= MaxNow
    /\ now' = now + ClockStep
    /\ UNCHANGED <<file, guard, rng, ops, pc, req, db, res, hist, serial, tally>>

\* The system clock is set back.
ClockBack ==
    /\ now >= ClockStep
    /\ now' = now - ClockStep
    /\ UNCHANGED <<file, guard, rng, ops, pc, req, db, res, hist, serial, tally>>

Next ==
    \/ \E t \in Tasks, r \in Requests : Start(t, r)
    \/ WakePeriod
    \/ WakeRetry
    \/ \E p \in Procs : Lock(p)
    \/ \E p \in Procs : Read(p)
    \/ \E p \in Procs : Reset(p)
    \/ \E p \in Procs : FindReturn(p)
    \/ \E p \in Procs : RngLock(p)
    \/ \E p \in Procs : Draw(p)
    \/ \E p \in Procs : Body(p)
    \/ \E p \in Procs : Save(p)
    \/ Tick
    \/ ClockBack

Spec == Init /\ [][Next]_vars

\* Only create_event is called.
NextCreate ==
    \/ \E t \in Tasks : Start(t, MkReq("create_event", 0, FALSE, NoData))
    \/ \E t \in Tasks : Lock(t)
    \/ \E t \in Tasks : Read(t)
    \/ \E t \in Tasks : Reset(t)
    \/ \E t \in Tasks : RngLock(t)
    \/ \E t \in Tasks : Draw(t)
    \/ \E t \in Tasks : Save(t)

SpecCreate == Init /\ [][NextCreate]_vars

\* Two calls one after the other: a first handler's call and, once that call
\* has returned, a second handler's call; no sweep in between.
NextSeq ==
    \/ \E r \in Requests : ops = 0 /\ Start("t1", r)
    \/ \E r \in Requests :
        ops = 1 /\ pc["t1"] = "idle" /\ res["t1"].kind # "none" /\ Start("t2", r)
    \/ \E t \in Tasks : Lock(t)
    \/ \E t \in Tasks : Read(t)
    \/ \E t \in Tasks : Reset(t)
    \/ \E t \in Tasks : FindReturn(t)
    \/ \E t \in Tasks : RngLock(t)
    \/ \E t \in Tasks : Draw(t)
    \/ \E t \in Tasks : Body(t)
    \/ \E t \in Tasks : Save(t)

SpecSeq == Init /\ [][NextSeq]_vars

\* Calls of update_event.
NextUpdate ==
    \/ \E t \in Tasks, r \in UpdateRequests : Start(t, r)
    \/ \E t \in Tasks : Lock(t)
    \/ \E t \in Tasks : Read(t)
    \/ \E t \in Tasks : Reset(t)
    \/ \E t \in Tasks : Body(t)
    \/ \E t \in Tasks : Save(t)

SpecUpdate == Init /\ [][NextUpdate]_vars

\* The purge task alone, under a clock that moves.
NextPurge ==
    \/ WakePeriod
    \/ WakeRetry
    \/ Lock(Purger)
    \/ Read(Purger)
    \/ Reset(Purger)
    \/ Body(Purger)
    \/ Save(Purger)
    \/ Tick
    \/ ClockBack

SpecPurge == InitFrom(PurgeFiles) /\ [][NextPurge]_vars

\* purge_task's loop: a sleep of the purge task is over and the next sweep
\* starts; the loop has no bound, the sweep is not counted.
Wake(at) ==
    /\ pc[Purger] = at
    /\ pc' = [pc EXCEPT ![Purger] = "lock"]
    /\ res' = [res EXCEPT ![Purger] = NoRes]
    /\ hist' = [hist EXCEPT ![Purger] = NoHist]
    /\ UNCHANGED <<file, guard, rng, now, ops, req, db, serial, tally>>

\* A step of the purge task.
PurgeStep ==
    \/ Wake("sleep")
    \/ Wake("retry")
    \/ Lock(Purger)
    \/ Read(Purger)
    \/ Reset(Purger)
    \/ Body(Purger)
    \/ Save(Purger)

NextPurgeLive ==
    \/ PurgeStep
    \/ Tick
    \/ ClockBack

\* The purge task for the life of the process: the runtime wakes a sleep that
\* is over and polls a task that can go on.
SpecPurgeLive ==
    InitFrom(PurgeFiles) /\ [][NextPurgeLive]_vars /\ WF_vars(PurgeStep)

\* The calls the handlers make while the purge task runs: add_attendee, which
\* draws from RNG inside its cycle when an event matches, and a find.
LiveRequests ==
    {MkReq("add_attendee", 0, FALSE, NoData), MkReq("find_event_by_id", 0, FALSE, NoData)}

\* The file the process starts with: a store with an event.
LiveFiles == {Encode(SeedDB)}

\* A step of task p that waits for nothing: an .await on the file system or a
\* synchronous piece of the body.
Run(p) ==
    \/ Read(p)
    \/ Reset(p)
    \/ FindReturn(p)
    \/ Draw(p)
    \/ Body(p)
    \/ Save(p)

NextLive ==
    \/ \E t \in Tasks, r \in LiveRequests : Start(t, r)
    \/ Wake("sleep")
    \/ Wake("retry")
    \/ \E p \in Procs : Lock(p)
    \/ \E p \in Procs : RngLock(p)
    \/ \E p \in Procs : Run(p)

\* The runtime polls every task that can go on (WF of Run), and
\* tokio::sync::Mutex hands a gate to its waiters in the order they asked, so
\* that a task that waits at a gate which is released again and again gets it
\* (SF of Lock and RngLock).  The handlers' calls and the timer are left free.
Fairness ==
    \A p \in Procs : WF_vars(Run(p)) /\ SF_vars(Lock(p)) /\ SF_vars(RngLock(p))

\* The foreground calls and the purge task together, for the life of the
\* process.
SpecLive == InitFrom(LiveFiles) /\ [][NextLive]_vars /\ Fairness

\* ------------------------------------------------------------- properties
\* Task p is inside a load-modify-save cycle: between open_db's lock and the
\* end of save_db (or the return that drops the guard).
InCycle(p) == pc[p] \in {"read", "reset", "loaded", "draw", "save"}

WriteFailed(o) == o \in {"fail_keep", "fail_trunc"}

\* No call or sweep is in progress or waiting.
AllReturned == \A p \in Procs : pc[p] \in {"idle", "sleep", "retry"}

\* C1: at most one task is inside a load-modify-save cycle: a task in its cycle
\* (it is about to read or write the file, or owns a loaded store) holds
\* DB_GUARD, and DB_GUARD has at most one holder.
C1_OneCycleAtATime ==
    /\ \A p \in Procs : InCycle(p) => p \in guard
    /\ Cardinality(guard) <= 1
    /\ Cardinality({p \in Procs : InCycle(p)}) <= 1

\* A call is about to write the file while the purge task waits for the gate.
C1_Witness ==
    \E t \in Tasks :
        /\ pc[t] = "save"
        /\ pc[Purger] = "lock"

\* C2: whenever no task is inside its cycle, the file equals the file that the
\* calls and sweeps that have returned produce when run one at a time, each
\* alone, in the order in which they returned.
C2_SerialEquivalent ==
    (\A p \in Procs : ~InCycle(p)) => file = serial

\* A sweep and a call that changed the store have both returned.
C2_Witness ==
    /\ AllReturned
    /\ res[Purger].kind = "Ok"
    /\ \E t \in Tasks :
        /\ req[t].op = "add_attendee"
        /\ res[t].kind = "Ok"
        /\ Decodable(file)
        /\ Len(Decode(file)) = 2
        /\ Len(Decode(file)[1].attendees) = 2

\* C3 as stated: when every create_event call has returned an id, the store
\* holds the events of the initial file and one more for each call.
C3_CountAfterCreates ==
    (AllReturned /\ ops > 0 /\ tally.created = ops)
        => Decodable(file) /\ Len(Decode(file)) = tally.base + ops

\* C3, amended: the same, provided no read of an existing file failed.
C3_CountAfterCreatesNoFailedRead ==
    (AllReturned /\ ops > 0 /\ tally.created = ops /\ ~tally.rdlost)
        => Decodable(file) /\ Len(Decode(file)) = tally.base + ops

\* Two create_event calls on a store with events have returned their ids.
C3_Witness ==
    /\ AllReturned
    /\ tally.created >= 2
    /\ tally.created = ops
    /\ ~tally.rdlost
    /\ tally.base > 0
    /\ \A t \in Tasks : res[t].kind = "Ok"

\* C4: a task that is not inside a cycle holds no guard of DB_GUARD, whatever
\* its call returned, and the gate is free when no task is inside a cycle.
C4_GateReleased ==
    /\ \A p \in Procs : ~InCycle(p) => p \notin guard
    /\ (\A p \in Procs : ~InCycle(p)) => guard = {}

\* One call has returned the Database error out of open_db, another out of
\* save_db.
C4_Witness ==
    \E p, q \in Tasks :
        /\ pc[p] = "idle" /\ res[p].kind = "Database" /\ WriteFailed(hist[p].w1)
        /\ pc[q] = "idle" /\ res[q].kind = "Database" /\ WriteFailed(hist[q].w2)
        /\ guard = {}

\* An event with the id and creation time of ev is in the file g.
EventKept(ev, g) ==
    \E j \in 1..Len(g.events) :
        g.events[j].id = ev.id /\ g.events[j].created = ev.created

EventsKept(f, g) == \A i \in 1..Len(f.events) : EventKept(f.events[i], g)

\* C5 as stated: every event of the persisted store is still in it after any
\* step that is not a step of the purge task: an event leaves the store only
\* through a purge sweep.
C5_OnlyPurgeDeletes ==
    [][EventsKept(file, file') \/ pc'[Purger] # pc[Purger]]_vars

\* C5, amended: an event leaves the persisted store only through the save of a
\* purge sweep, through open_db's write of the empty store after a failed read
\* or decode, or through a failed write that leaves the file undecodable; so a
\* call that loaded the store and whose save succeeds keeps every event.
C5_DeletionPaths ==
    [][\/ EventsKept(file, file')
       \/ pc[Purger] = "save" /\ pc'[Purger] # "save"
       \/ \E p \in Procs : pc[p] = "reset" /\ pc'[p] # "reset"
       \/ file'.kind = "garbage"]_vars

\* remove_attendee has removed both attendees of the seeded event and the event
\* is still in the store.
C5_Witness ==
    \E t \in Tasks :
        /\ pc[t] = "idle"
        /\ req[t].op = "remove_attendee"
        /\ res[t].kind = "Ok"
        /\ hist[t].load = "ok"
        /\ ops = 1
        /\ file = Encode(<<MkEvent(0, <<>>, <<>>, 0)>>)

\* Task t's call has returned.
Returned(t) == pc[t] = "idle" /\ res[t].kind # "none"

\* C6 as stated: a CRUD call that met a failed read, a failed decode or a failed
\* write has returned the Database error.
C6_AnyFailureIsDatabaseError ==
    \A t \in Tasks :
        (/\ Returned(t)
         /\ req[t].op \in CrudOps
         /\ \/ hist[t].load \in {"read_err", "corrupt"}
            \/ WriteFailed(hist[t].w1)
            \/ WriteFailed(hist[t].w2))
        => res[t].kind = "Database"

\* C6, amended: a CRUD call returns the Database error exactly when one of its
\* writes failed (open_db's write of the empty store, or save_db's write); a
\* failed read or decode alone does not: the call goes on with the empty store.
C6_WriteFailureIsDatabaseError ==
    \A t \in Tasks :
        (Returned(t) /\ req[t].op \in CrudOps)
        => (res[t].kind = "Database"
               <=> (WriteFailed(hist[t].w1) \/ WriteFailed(hist[t].w2)))

\* create_event found the file undecodable, reset it, and its save failed.
C6_Witness ==
    \E t \in Tasks :
        /\ Returned(t)
        /\ req[t].op = "create_event"
        /\ hist[t].load = "corrupt"
        /\ hist[t].w1 = "ok"
        /\ WriteFailed(hist[t].w2)
        /\ res[t].kind = "Database"

\* open_db of task p wrote the empty store and returned it: while p has not gone
\* on, its store is empty and so is the store in the file.
ResetReturnedEmpty(p) ==
    /\ hist[p].w1 = "ok"
    /\ pc[p] = "loaded" =>
        /\ db[p] = EmptyDB
        /\ file = Encode(EmptyDB)
        /\ Decodable(file)
        /\ Len(Decode(file)) = 0

\* open_db of task p returned Err(()), and the call with it.
ResetReturnedErr(p) ==
    /\ WriteFailed(hist[p].w1)
    /\ ~InCycle(p)
    /\ res[p].kind \in {"Database", "Panic"}

\* C7 as stated: after open_db found the bytes undecodable it has overwritten
\* the file with the empty store and returned the empty store.
C7_CorruptAlwaysReset ==
    \A p \in Procs :
        (hist[p].load = "corrupt" /\ pc[p] # "reset") => ResetReturnedEmpty(p)

\* C7, amended: the same when the overwrite succeeds; when it fails open_db
\* returns the error and the call ends with it.
C7_CorruptResetUnlessWriteFails ==
    \A p \in Procs :
        (hist[p].load = "corrupt" /\ pc[p] # "reset")
        => (ResetReturnedEmpty(p) \/ ResetReturnedErr(p))

\* open_db has returned after it found the file undecodable.
C7_Witness ==
    \E t \in Tasks :
        /\ pc[t] = "loaded"
        /\ hist[t].load = "corrupt"
        /\ file = Encode(EmptyDB)

\* C8: after a failed read open_db writes the empty store and returns it, except
\* that it returns the error when that write fails.
C8_ReadFailure ==
    \A p \in Procs :
        (hist[p].load = "read_err" /\ pc[p] # "reset")
        => (ResetReturnedEmpty(p) \/ ResetReturnedErr(p))

\* The read of an existing file failed, then the write failed, and the call
\* returned the Database error.
C8_Witness ==
    \E t \in Tasks :
        /\ Returned(t)
        /\ hist[t].load = "read_err"
        /\ tally.rdlost
        /\ hist[t].w1 = "fail_keep"
        /\ res[t].kind = "Database"

\* The identifier of the request matches an event (update_event, add_attendee)
\* or an attendee (set_accepted, remove_attendee) of the store d.
Matches(r, d) ==
    IF r.op \in {"set_accepted", "remove_attendee"}
    THEN \E i \in 1..Len(d) : \E j \in 1..Len(d[i].attendees) : d[i].attendees[j].id = r.id
    ELSE \E i \in 1..Len(d) : d[i].id = r.id

\* C9: a mutation never returns NotFound, and one that loaded the store, whose
\* identifier matches nothing in it and whose save succeeds returns Ok and
\* leaves the file as it was.
C9_Permissive ==
    [][\A t \in Tasks :
        /\ req'[t].op \in MutationOps => res'[t].kind # "NotFound"
        /\ (/\ pc[t] = "save"
            /\ pc'[t] = "idle"
            /\ req[t].op \in MutationOps
            /\ hist[t].load = "ok"
            /\ hist'[t].w2 = "ok"
            /\ ~Matches(req[t], Decode(file)))
           => (res'[t].kind = "Ok" /\ file' = file)]_vars

\* set_accepted(0, true) has returned Ok on the seeded store, which has no
\* attendee 0, and the file is the seeded store.
C9_Witness ==
    \E t \in Tasks :
        /\ Returned(t)
        /\ req[t].op = "set_accepted"
        /\ req[t].id = 0
        /\ req[t].accept
        /\ res[t].kind = "Ok"
        /\ hist[t].load = "ok"
        /\ hist[t].w2 = "ok"
        /\ ops = 1
        /\ file = Encode(SeedDB)

\* Attendee j of event i is the first attendee with id a in the order of d.
FirstMatch(d, a, i, j) ==
    /\ d[i].attendees[j].id = a
    /\ \A i2 \in 1..Len(d) : \A j2 \in 1..Len(d[i2].attendees) :
        d[i2].attendees[j2].id = a => (i2 > i \/ (i2 = i /\ j2 >= j))

\* C10: find_event_by_attendee(a) returns NotFound exactly when no event of the
\* store has an attendee with id a, and otherwise the first match in store
\* order: an event and an attendee of it whose id is a.
C10_FindByAttendee ==
    [][\A t \in Tasks :
        (pc[t] = "loaded" /\ pc'[t] = "idle" /\ req[t].op = "find_event_by_attendee")
        => LET d == Decode(file)
               a == req[t].id
               r == res'[t]
           IN  /\ r.kind = "NotFound" <=>
                    ~\E i \in 1..Len(d) : \E j \in 1..Len(d[i].attendees) :
                        d[i].attendees[j].id = a
               /\ r.kind # "NotFound" =>
                    /\ r.kind = "Ok"
                    /\ \E i \in 1..Len(d) : \E j \in 1..Len(d[i].attendees) :
                        /\ FirstMatch(d, a, i, j)
                        /\ r.ev = <<d[i]>>
                        /\ r.at = <<d[i].attendees[j]>>
                    /\ r.at[1].id = a
                    /\ \E k \in 1..Len(r.ev[1].attendees) : r.ev[1].attendees[k] = r.at[1]]_vars

\* find_event_by_attendee(0) has returned the first of the two events that
\* have an attendee 0.
C10_Witness ==
    \E t \in Tasks :
        /\ Returned(t)
        /\ req[t].op = "find_event_by_attendee"
        /\ req[t].id = 0
        /\ hist[t].load = "ok"
        /\ res[t].kind = "Ok"
        /\ res[t].ev = <<SeedTwoDB[1]>>
        /\ res[t].at = <<NewAttendee(0)>>

\* Task p's save_db writes the file and returns Ok in this step.
SavesOk(p) == pc[p] = "save" /\ pc'[p] # "save" /\ hist'[p].w2 = "ok"

\* The store e is the store d with the flag of every attendee whose id is a set
\* to b, and nothing else changed.
OnlyFlagsOf(d, e, a, b) ==
    /\ Len(e) = Len(d)
    /\ \A i \in 1..Len(d) :
        /\ e[i].id = d[i].id
        /\ e[i].name = d[i].name
        /\ e[i].created = d[i].created
        /\ Len(e[i].attendees) = Len(d[i].attendees)
        /\ \A j \in 1..Len(d[i].attendees) :
            /\ e[i].attendees[j].id = d[i].attendees[j].id
            /\ e[i].attendees[j].name = d[i].attendees[j].name
            /\ e[i].attendees[j].custom_html = d[i].attendees[j].custom_html
            /\ e[i].attendees[j].has_accepted =
                   IF d[i].attendees[j].id = a THEN b
                   ELSE d[i].attendees[j].has_accepted

Present(d, e) == \E i \in 1..Len(d) : d[i].id = e

\* The store e is the store d with one placeholder attendee appended to every
\* event whose id is ev_id.
OneAppended(d, e, ev_id) ==
    /\ Len(e) = Len(d)
    /\ \A i \in 1..Len(d) :
        IF d[i].id = ev_id
        THEN /\ Len(e[i].attendees) = Len(d[i].attendees) + 1
             /\ e[i] = [d[i] EXCEPT !.attendees =
                           Append(@, MkAttendee(e[i].attendees[Len(e[i].attendees)].id,
                                                "Unnamed", "<html></html>", FALSE))]
        ELSE e[i] = d[i]

\* The ids of the attendees at the end of the events with id ev_id.
LastIds(d, ev_id) ==
    {d[i].attendees[Len(d[i].attendees)].id :
        i \in {k \in 1..Len(d) : d[k].id = ev_id /\ d[k].attendees # <<>>}}

\* In the store d, which add_attendee(ev_id) has just saved, n is the id of
\* every attendee that was added and of no attendee that was there before.
FreshIn(d, ev_id, n) ==
    /\ LastIds(d, ev_id) = {n}
    /\ \A i \in 1..Len(d) : \A j \in 1..Len(d[i].attendees) :
        d[i].attendees[j].id = n => (d[i].id = ev_id /\ j = Len(d[i].attendees))

\* Every event of e has as many attendees as it had in d before add_attendee
\* (ev_id) appended one to the events with that id.
CountsRestored(d, e, ev_id) ==
    /\ Len(e) = Len(d)
    /\ \A i \in 1..Len(d) :
        Len(e[i].attendees) = Len(d[i].attendees) - (IF d[i].id = ev_id THEN 1 ELSE 0)

\* The second call is remove_attendee(n), the first was add_attendee(e) and
\* returned Ok, no other call was made, and in the persisted store e is present
\* and n is the id of an attendee that add_attendee appended.
RemoveFollowsAdd ==
    /\ ops = 2
    /\ req["t1"].op = "add_attendee"
    /\ res["t1"].kind = "Ok"
    /\ req["t2"].op = "remove_attendee"
    /\ Decodable(file)
    /\ Present(Decode(file), req["t1"].id)
    /\ req["t2"].id \in LastIds(Decode(file), req["t1"].id)

\* add_attendee(e) appends one placeholder attendee to every event with id e
\* and changes nothing else.
AddAppendsOne ==
    \A t \in Tasks :
        (SavesOk(t) /\ req[t].op = "add_attendee")
        => /\ Decodable(file)
           /\ file'.kind = "cbor"
           /\ OneAppended(Decode(file), file'.events, req[t].id)

\* C12 as stated: once add_attendee(e) has returned, every write of the
\* remove_attendee(n) that follows it (open_db's, save_db's) leaves every event
\* with the attendee count it had before the add.
C12_AddThenRemoveRestores ==
    [][/\ AddAppendsOne
       /\ (/\ RemoveFollowsAdd
           /\ \/ SavesOk("t2")
              \/ pc["t2"] = "reset" /\ pc'["t2"] = "loaded")
          => /\ file'.kind = "cbor"
             /\ CountsRestored(Decode(file), file'.events, req["t1"].id)]_vars

\* C12, amended: the same when remove_attendee loads the store and n is the id
\* of every attendee the add appended and of no attendee that was in the store
\* before.
C12_AddThenRemoveFreshId ==
    [][/\ AddAppendsOne
       /\ (/\ RemoveFollowsAdd
           /\ SavesOk("t2")
           /\ hist["t2"].load = "ok"
           /\ FreshIn(Decode(file), req["t1"].id, req["t2"].id))
          => /\ file'.kind = "cbor"
             /\ CountsRestored(Decode(file), file'.events, req["t1"].id)]_vars

\* add_attendee(0) drew the id 0 on the seeded store, whose attendees both have
\* the id 1, and remove_attendee(0) has returned Ok: the store is the seeded
\* store again.
C12_Witness ==
    /\ req["t1"] = MkReq("add_attendee", 0, FALSE, NoData)
    /\ req["t2"] = MkReq("remove_attendee", 0, FALSE, NoData)
    /\ \A t \in Tasks : pc[t] = "idle" /\ res[t].kind = "Ok" /\ hist[t].load = "ok"
    /\ tally.base = 1
    /\ file = Encode(SeedDB)

\* The event ev, seen at the time n, was not created after n and is younger
\* than the retention window.
Young(ev, n) == ev.created <= n /\ n - ev.created < EVENT_LIFETIME

\* The store e holds exactly the events of d that are young at n, unchanged and
\* in their order in d: the k-th young event of d is the k-th event of e.
ExactlyTheYoung(d, e, n) ==
    /\ Len(e) = Cardinality({i \in 1..Len(d) : Young(d[i], n)})
    /\ \A i \in 1..Len(d) :
        Young(d[i], n) => e[Cardinality({k \in 1..i : Young(d[k], n)})] = d[i]

\* C13: the store a successful sweep saves holds exactly the events of the
\* store it loaded that were not created after the time of the sweep and are
\* younger than 90 days at that time, unchanged and in order: an event aged 90
\* days or more is gone, one aged 89 days is kept, one created after now is
\* gone.
C13_PurgeBoundary ==
    [][SavesOk(Purger)
       => LET d == Decode(file)
              n == hist[Purger].now
          IN  /\ Decodable(file)
              /\ file'.kind = "cbor"
              /\ ExactlyTheYoung(d, file'.events, n)
              /\ \A i \in 1..Len(d) :
                    /\ n - d[i].created >= 90 => ~\E j \in 1..Len(file'.events) : file'.events[j] = d[i]
                    /\ n - d[i].created \in 0..89 => \E j \in 1..Len(file'.events) : file'.events[j] = d[i]
                    /\ d[i].created > n => ~\E j \in 1..Len(file'.events) : file'.events[j] = d[i]]_vars

\* A sweep on day 90 has succeeded on the store with events created on days 0,
\* 1, 91 and 1: the two events aged 89 days are left, in their order.
C13_Witness ==
    /\ pc[Purger] = "sleep"
    /\ res[Purger].kind = "Ok"
    /\ hist[Purger].load = "ok"
    /\ ops = 1
    /\ now = 90
    /\ file = Encode(<<PurgeSeedDB[2], PurgeSeedDB[4]>>)

\* C14: the purge task starts in the sleep of 24 hours; a sweep starts only out
\* of a sleep; the sweep that ends goes to the sleep of 1 minute when it failed
\* and to the sleep of 24 hours when it succeeded, so the task is in the sleep
\* of 24 hours only before its first sweep or after a sweep that succeeded.
C14_SchedulerStates ==
    /\ SleepFor(pc[Purger]) = 86400
    /\ res[Purger].kind = "none"
    /\ [][/\ (pc[Purger] # "lock" /\ pc'[Purger] = "lock")
             => /\ SleepFor(pc[Purger]) \in {60, 86400}
                /\ SleepFor(pc[Purger]) = 60 <=> res[Purger].kind = "Database"
                /\ SleepFor(pc[Purger]) = 86400 <=> res[Purger].kind \in {"none", "Ok"}
          /\ (InCycle(Purger) /\ ~InCycle(Purger)')
             => /\ res'[Purger].kind \in {"Ok", "Database"}
                /\ res'[Purger].kind = "Database" <=>
                      (WriteFailed(hist'[Purger].w1) \/ WriteFailed(hist'[Purger].w2))
                /\ res'[Purger].kind = "Database" => SleepFor(pc'[Purger]) = 60
                /\ res'[Purger].kind = "Ok" => SleepFor(pc'[Purger]) = 86400
          /\ (pc[Purger] \in {"sleep", "retry"} /\ pc'[Purger] # pc[Purger])
             => pc'[Purger] = "lock"]_vars

\* The first sweep failed on a write that left the seeded file truncated; the
\* second sweep, started out of the sleep of 1 minute, found the file
\* undecodable and failed as well: the task is in the sleep of 1 minute again.
C14_Witness ==
    /\ pc[Purger] = "retry"
    /\ res[Purger].kind = "Database"
    /\ hist[Purger].load = "corrupt"
    /\ WriteFailed(hist[Purger].w1)
    /\ ops = 2
    /\ tally.base = 4

\* A write of the purge task's sweep fails in this step.
StoreFails ==
    /\ pc[Purger] \in {"reset", "save"}
    /\ WriteFailed(hist'[Purger].w1) \/ WriteFailed(hist'[Purger].w2)

\* C15: the purge task is always in its loop (asleep or in a sweep, never
\* stopped, never panicked) and always has a next step; and if from some time
\* on no write of the store fails, every sweep that has started is followed by
\* a sweep that succeeds.
C15_NeverStops ==
    /\ [](pc[Purger] \in {"sleep", "retry", "lock", "read", "reset", "loaded", "save"})
    /\ [](res[Purger].kind \in {"none", "Ok", "Database"})
    /\ [](ENABLED PurgeStep)
    /\ (<>[][~StoreFails]_vars) => ((pc[Purger] = "lock") ~> (pc[Purger] = "sleep" /\ res[Purger].kind = "Ok"))

\* A sweep has failed and the purge task is in the sleep of 1 minute, about to
\* try again.
C15_Witness ==
    /\ pc[Purger] = "retry"
    /\ res[Purger].kind = "Database"
    /\ hist[Purger].load = "ok"
    /\ hist[Purger].w2 = "fail_keep"
    /\ ops = 0

\* The keys of the payload data that decode, and decode to the identifier a.
KeysOf(data, a) ==
    {k \in DOMAIN data.attendee_data : DecodeOk(k) /\ DecodeValue(k) = a}

\* The store e is the store d after update_event(ev_id, data): every event with
\* the id has the payload's name; an attendee of such an event whose id is the
\* decoded value of a key has the name and html of the entry of such a key;
\* every other attendee, every other event, every flag, id, creation time and
\* the order are as in d.
UpdatedBy(d, e, ev_id, data) ==
    /\ Len(e) = Len(d)
    /\ \A i \in 1..Len(d) :
        IF d[i].id # ev_id THEN e[i] = d[i]
        ELSE /\ e[i].id = d[i].id
             /\ e[i].created = d[i].created
             /\ e[i].name = <<data.event_name>>
             /\ Len(e[i].attendees) = Len(d[i].attendees)
             /\ \A j \in 1..Len(d[i].attendees) :
                 LET old == d[i].attendees[j]
                     new == e[i].attendees[j]
                 IN  /\ new.id = old.id
                     /\ new.has_accepted = old.has_accepted
                     /\ IF KeysOf(data, old.id) = {} THEN new = old
                        ELSE \E k \in KeysOf(data, old.id) :
                                /\ new.name = data.attendee_data[k].name
                                /\ new.custom_html = data.attendee_data[k].custom_html

\* C16: the store update_event(e, payload) saves is the store it loaded, updated
\* as the claim says: names of the events with id e set, attendees whose id is
\* the decoded value of a key overwritten with that entry, everything else
\* (attendees without a matching key, other events, flags, ids) unchanged, keys
\* that do not decode without effect.
C16_UpdateEventEffect ==
    [][\A t \in Tasks :
        (SavesOk(t) /\ req[t].op = "update_event")
        => /\ Decodable(file)
           /\ file'.kind = "cbor"
           /\ UpdatedBy(Decode(file), file'.events, req[t].id, req[t].data)]_vars

\* The second call is find_event_by_attendee(a) and the first was
\* set_accepted(a, true), which returned Ok; no other call was made.
FindFollowsAccept ==
    /\ ops = 2
    /\ req["t1"].op = "set_accepted"
    /\ req["t1"].accept
    /\ res["t1"].kind = "Ok"
    /\ req["t2"].op = "find_event_by_attendee"
    /\ req["t2"].id = req["t1"].id

\* What the find answers from the store it holds: the first attendee with the
\* id, whose flag is true, or NotFound when the store has no such attendee.
AnswersAccepted ==
    (pc["t2"] = "loaded" /\ pc'["t2"] = "idle")
    => IF Matches(req["t1"], db["t2"])
       THEN /\ res'["t2"].kind = "Ok"
            /\ res'["t2"].at[1].id = req["t2"].id
            /\ res'["t2"].at[1].has_accepted
       ELSE res'["t2"].kind = "NotFound"

\* C17 as stated: the find that follows the set_accepted works on the data last
\* committed (the store in the file when its open_db runs) and so returns the
\* attendee with the flag true.
C17_ReadYourWrites ==
    [][FindFollowsAccept
       => /\ (pc["t2"] \in {"read", "reset"} /\ pc'["t2"] = "loaded" /\ file.kind = "cbor")
             => db'["t2"] = file.events
          /\ AnswersAccepted]_vars

\* C17, amended: the same when the read of the find's open_db succeeds.
C17_ReadYourWritesIfRead ==
    [][FindFollowsAccept
       => /\ (pc["t2"] = "read" /\ pc'["t2"] = "loaded" /\ file.kind = "cbor")
             => db'["t2"] = file.events
          /\ AnswersAccepted]_vars

\* set_accepted(1, true) has returned Ok on the seeded store and the find that
\* followed returned its first attendee 1, whose flag was false, with the flag
\* true.
C17_Witness ==
    /\ req["t1"] = MkReq("set_accepted", 1, TRUE, NoData)
    /\ req["t2"] = MkReq("find_event_by_attendee", 1, FALSE, NoData)
    /\ \A t \in Tasks : pc[t] = "idle" /\ res[t].kind = "Ok" /\ hist[t].load = "ok"
    /\ tally.base = 1
    /\ res["t2"].at = <<MkAttendee(1, "Unnamed", "<html></html>", TRUE)>>

\* C18 as stated: two create_event calls that have returned an id have returned
\* different ids.
C18_DistinctIds ==
    \A t, u \in Tasks :
        (/\ t # u
         /\ Returned(t) /\ req[t].op = "create_event" /\ res[t].kind = "Ok"
         /\ Returned(u) /\ req[u].op = "create_event" /\ res[u].kind = "Ok")
        => res[t].id # res[u].id

\* C18, amended: a create_event call that succeeds returns the identifier it
\* drew from RNG, and the store it saves is the store it loaded with one event
\* appended that has this id, no name, no attendees and the time of the call;
\* nothing compares the id with the ids in the store.
C18_ReturnsDrawnId ==
    [][\A t \in Tasks :
        (SavesOk(t) /\ req[t].op = "create_event")
        => /\ Decodable(file)
           /\ res'[t].kind = "Ok"
           /\ res'[t].id = hist[t].draws[1]
           /\ file'.kind = "cbor"
           /\ file'.events =
                 Decode(file) \o <<[id |-> res'[t].id, name |-> <<>>,
                                    attendees |-> <<>>, created |-> hist[t].now]>>]_vars

\* Two concurrent create_event calls have returned the ids 0 and 1, and the
\* store holds the two events.
C18_Witness ==
    /\ \A t \in Tasks : Returned(t) /\ req[t].op = "create_event" /\ hist[t].load = "ok"
    /\ res["t1"] = MkRes("Ok", 0, <<>>, <<>>)
    /\ res["t2"] = MkRes("Ok", 1, <<>>, <<>>)
    /\ tally.base = 0
    /\ Decodable(file)
    /\ {file.events[i].id : i \in 1..Len(file.events)} = {0, 1}

\* C19: update_event changes the name or html of an attendee only when some
\* key of the payload decodes to a value equal to the attendee's id; a key that
\* decodes to another value, one wider than an identifier included, changes no
\* attendee.
C19_ExactMatchOnly ==
    [][\A t \in Tasks :
        (SavesOk(t) /\ req[t].op = "update_event" /\ Decodable(file) /\ file'.kind = "cbor")
        => /\ Len(file'.events) = Len(file.events)
           /\ \A i \in 1..Len(file.events) :
                /\ Len(file'.events[i].attendees) = Len(file.events[i].attendees)
                /\ \A j \in 1..Len(file.events[i].attendees) :
                    (\/ file'.events[i].attendees[j].name # file.events[i].attendees[j].name
                     \/ file'.events[i].attendees[j].custom_html
                            # file.events[i].attendees[j].custom_html)
                    => \E k \in DOMAIN req[t].data.attendee_data :
                          /\ DecodeOk(k)
                          /\ DecodeValue(k) = file.events[i].attendees[j].id]_vars

\* Task t is in find_event_by_id or find_event_by_attendee.
InFind(t) == req[t].op \in {"find_event_by_id", "find_event_by_attendee"}

\* C20 as stated: no step of a find call changes the content of the file.
C20_FindsKeepFile ==
    [][\A t \in Tasks : (InFind(t) /\ pc'[t] # pc[t]) => file' = file]_vars

\* C20, amended: a find call never reaches save_db, and no step of it changes
\* the content of the file except the write of the empty store that open_db
\* makes after a failed read or a failed decode.
C20_FindsKeepFileUnlessReset ==
    [][\A t \in Tasks :
        InFind(t)
        => /\ pc'[t] # "save"
           /\ (pc'[t] # pc[t] /\ pc[t] # "reset") => file' = file
           /\ (pc'[t] # pc[t] /\ pc[t] = "reset")
              => /\ hist[t].load \in {"read_err", "corrupt"}
                 /\ file' \in {file, Garbage, Encode(EmptyDB)}]_vars

\* find_event_by_id(0) has returned the event of the seeded store and the file
\* is the seeded store.
C20_Witness ==
    /\ req["t1"] = MkReq("find_event_by_id", 0, FALSE, NoData)
    /\ Returned("t1")
    /\ res["t1"].kind = "Ok"
    /\ res["t1"].ev = SeedDB
    /\ hist["t1"].load = "ok"
    /\ ops = 1
    /\ file = Encode(SeedDB)

\* Task p waits at a gate that task q holds: at DB_GUARD.lock().await in
\* open_db, or at RNG.lock().await in the body of create_event or add_attendee.
WaitsFor(p, q) ==
    \/ pc[p] = "lock" /\ q \in guard
    \/ /\ pc[p] = "loaded"
       /\ Len(hist[p].draws) < DrawsNeeded(req[p], db[p])
       /\ q \in rng

\* Tasks that wait on each other in a circle, across the two gates.
WaitCycle ==
    \E p, q, r \in Procs :
        \/ WaitsFor(p, p)
        \/ WaitsFor(p, q) /\ WaitsFor(q, p)
        \/ WaitsFor(p, q) /\ WaitsFor(q, r) /\ WaitsFor(r, p)

\* Task p is in a call that has not returned.
InCall(p) == pc[p] \in {"lock", "read", "reset", "loaded", "draw", "save"}

\* C21: under fair scheduling every call of a handler and every sweep of the
\* purge task that has started returns (with a value or with its error), and
\* in no reachable state do tasks wait on each other in a circle across DB_GUARD
\* and RNG; a gate is held only by a task that is inside a call.
C21_EveryCallReturns ==
    /\ [](~WaitCycle)
    /\ [](\A p \in guard \cup rng : InCall(p) /\ pc[p] # "lock")
    /\ \A p \in Procs : InCall(p) ~> (~InCall(p) /\ res[p].kind # "none")

\* A handler is at its draw, holding DB_GUARD and RNG, while the other handler
\* and the purge task both wait at DB_GUARD.
C21_Witness ==
    \E t, u \in Tasks :
        /\ t # u
        /\ pc[t] = "draw" /\ t \in guard /\ t \in rng
        /\ WaitsFor(u, t)
        /\ WaitsFor(Purger, t)

\* A step of task p inside one call: what it may do to the call's record of the
\* load (open_db's read and the write of the default structure) and of the
\* save (save_db's write).  Each is made once, none is made after a failure, and
\* the task goes forward only.
OneLoadOneSave(p) ==
    /\ hist'[p].load # hist[p].load => hist[p].load = "none" /\ pc[p] = "read"
    /\ hist'[p].w1 # hist[p].w1 => hist[p].w1 = "none" /\ pc[p] = "reset"
    /\ hist'[p].w2 # hist[p].w2 =>
            hist[p].w2 = "none" /\ pc[p] = "save" /\ ~WriteFailed(hist[p].w1)
    /\ pc'[p] # "lock"
    /\ pc'[p] = "read" => pc[p] = "read"
    /\ pc'[p] = "reset" => pc[p] \in {"read", "reset"}
    /\ pc'[p] = "save" => pc[p] \in {"loaded", "draw", "save"}

\* The step in which a load or a save of task p's call fails.
FailsIn(p) ==
    \/ hist[p].w1 = "none" /\ WriteFailed(hist'[p].w1)
    \/ hist[p].w2 = "none" /\ WriteFailed(hist'[p].w2)

\* C22: a call of a CRUD function by a handler loads at most once and saves at
\* most once; the step in which its load or its save fails is the step in which
\* it returns the Database error, and the handler's task does nothing more until
\* the handler makes a new call.  The purge task alone goes from a failed
\* cycle to a wait that ends in a new cycle.
C22_NoInlineRetry ==
    [][/\ \A t \in Tasks :
            /\ pc[t] \notin {"idle", "lock"} /\ req[t].op \in CrudOps =>
                    /\ OneLoadOneSave(t)
                    /\ FailsIn(t) => pc'[t] = "idle" /\ res'[t] = DatabaseRes
            /\ pc[t] = "idle" /\ pc'[t] # "idle" =>
                    pc'[t] = "lock" /\ hist'[t] = NoHist /\ ops' = ops + 1
            /\ pc'[t] # "retry"
       /\ pc[Purger] \notin {"sleep", "retry", "lock"} =>
            /\ OneLoadOneSave(Purger)
            /\ FailsIn(Purger) => pc'[Purger] = "retry" /\ res'[Purger] = DatabaseRes
       /\ pc[Purger] = "retry" /\ pc'[Purger] # "retry" => pc'[Purger] = "lock"
      ]_vars

\* A handler's mutation loaded the store, failed at its one save and returned
\* the Database error; the purge task waits to repeat a sweep that failed.
C22_Witness ==
    \E t \in Tasks :
        /\ req[t].op \in MutationOps
        /\ pc[t] = "idle"
        /\ res[t] = DatabaseRes
        /\ hist[t].load = "ok"
        /\ WriteFailed(hist[t].w2)
        /\ pc[Purger] = "retry"
        /\ res[Purger] = DatabaseRes

\* C23: the store a call of update_event persists is determined by the
\* persisted store it loaded and by its payload: whatever the order in which
\* the payload's map yields its entries, the same store is saved, also when
\* several keys decode to the id of one attendee.
C23_UpdateDeterministic ==
    [][\A t \in Tasks :
        (SavesOk(t) /\ req[t].op = "update_event" /\ Decodable(file) /\ file'.kind = "cbor")
        => \A o \in Orders(DOMAIN req[t].data.attendee_data) :
              file'.events = UpdateEvent(Decode(file), req[t].id, req[t].data, o)]_vars

====
